---- MODULE Spec2Model ----
(***************************************************************************)
(* Model of src/app.py: the delivery-platform dashboard.  The script is a  *)
(* single linear pass: three per-platform CSV parsers (parse_uber,         *)
(* parse_doordash, parse_grubhub), their concatenation in main, and the    *)
(* aggregates computed from the merged table (create_executive_summary,    *)
(* generate_business_insights, create_platform_comparison).                *)
(*                                                                         *)
(* Representation.                                                         *)
(*  - A text is a tuple of one-character strings, so that str.replace and  *)
(*    float() are computed character by character.                         *)
(*  - A Python float is [cls, m, e]: cls is "fin", "inf", "-inf" or "nan"; *)
(*    a finite value is m * 10^-e, kept normalised (exact decimal          *)
(*    arithmetic; binary rounding of the last bits is not modelled).       *)
(*  - A date is the number of days since 2025-09-30, so 2025-10-01 is 1    *)
(*    and 2025-10-31 is 31; NaT is pandas' not-a-time.                     *)
(*  - A DataFrame is a sequence of records.  The DateTime column (time of  *)
(*    day) is carried by the code next to Date and read only by the        *)
(*    hour-of-day charts; it is not part of the modelled records.          *)
(*  - Column names and status words that are Chinese in the source are     *)
(*    written as ASCII tokens; each definition names its source line.      *)
(***************************************************************************)
EXTENDS Integers, Sequences, FiniteSets, TLC

VARIABLES
    uber_file, dd_file, gh_file,   \* main: the three uploaded files
    df_uber, df_dd, df_gh,         \* main: what each parser returned
    st_errors,                     \* messages shown with st.error
    raised,                        \* an exception escaped to the caller
    data_frames,                   \* main: the non-empty parser results
    df,                            \* main: the merged table
    summary,                       \* main: create_executive_summary(df)
    insight_cancel,                \* generate_business_insights: the cancellation insight
    daily_platform,                \* create_platform_comparison: the daily trend traces
    view,                          \* which screen main rendered
    pc,                            \* position in the script
    x, amount,                     \* clean_currency: argument and result
    platform_detailed,             \* main: the detailed platform metrics table
    cancel_by_platform             \* main: the per-platform rate of the cancellation chart

vars == <<uber_file, dd_file, gh_file, df_uber, df_dd, df_gh, st_errors, raised,
          data_frames, df, summary, insight_cancel, daily_platform, view, pc, x, amount,
                   platform_detailed, cancel_by_platform>>

pipeVars == <<uber_file, dd_file, gh_file, df_uber, df_dd, df_gh, st_errors, raised,
              data_frames, df, summary, insight_cancel, daily_platform, view,
              platform_detailed, cancel_by_platform>>

-----------------------------------------------------------------------------
(* Bounds of the model *)

\* longest generated argument of clean_currency
MaxLen == 3
\* most data rows of a file handed to a single parser
MaxRows == 2
\* most rows of one platform's file in a run of main (Uber Eats, DoorDash)
MaxOrders == 2
\* most rows of the Grubhub file in a run of main
MaxGhRows == 3
\* most records of a table handed directly to the aggregator
MaxRecs == 3

-----------------------------------------------------------------------------
(* Python floats *)

RECURSIVE Pow10(_)
Pow10(n) == IF n <= 0 THEN 1 ELSE 10 * Pow10(n - 1)

RECURSIVE Norm(_, _)
\* the canonical form of m * 10^-e
Norm(m, e) ==
    IF m = 0 THEN [cls |-> "fin", m |-> 0, e |-> 0]
    ELSE IF e > 0 /\ m % 10 = 0 THEN Norm(m \div 10, e - 1)
    ELSE IF e < 0 THEN Norm(m * 10, e + 1)
    ELSE [cls |-> "fin", m |-> m, e |-> e]

FZero == Norm(0, 0)
FInf  == [cls |-> "inf", m |-> 0, e |-> 0]
FNInf == [cls |-> "-inf", m |-> 0, e |-> 0]
FNaN  == [cls |-> "nan", m |-> 0, e |-> 0]

\* a + b on floats (IEEE: inf + -inf and anything + nan are nan)
FAdd(a, b) ==
    IF a.cls = "nan" \/ b.cls = "nan" THEN FNaN
    ELSE IF a.cls = "fin" /\ b.cls = "fin" THEN
        LET e == IF a.e > b.e THEN a.e ELSE b.e
        IN  Norm(a.m * Pow10(e - a.e) + b.m * Pow10(e - b.e), e)
    ELSE IF a.cls = "fin" THEN b
    ELSE IF b.cls = "fin" THEN a
    ELSE IF a.cls = b.cls THEN a
    ELSE FNaN

FNeg(a) ==
    CASE a.cls = "fin"  -> Norm(0 - a.m, a.e)
      [] a.cls = "inf"  -> FNInf
      [] a.cls = "-inf" -> FInf
      [] OTHER          -> FNaN

-----------------------------------------------------------------------------
(* Python values handed to clean_currency *)

Str(s)    == [t |-> "str", s |-> s, f |-> FZero]
Float(f)  == [t |-> "float", s |-> <<>>, f |-> f]
PyNone    == [t |-> "NoneType", s |-> <<>>, f |-> FZero]

\* pd.notnull(x) for a scalar: None and NaN are null
notnull(v) == ~(v.t = "NoneType" \/ (v.t = "float" /\ v.f.cls = "nan"))

Digits == {"0", "1", "2", "3", "4", "5", "6", "7", "8", "9"}

DigitVal(c) ==
    CASE c = "0" -> 0 [] c = "1" -> 1 [] c = "2" -> 2 [] c = "3" -> 3
      [] c = "4" -> 4 [] c = "5" -> 5 [] c = "6" -> 6 [] c = "7" -> 7
      [] c = "8" -> 8 [] c = "9" -> 9

RECURSIVE Remove(_, _)
\* s with every character of the set cs removed: the chain of str.replace(c, '')
Remove(s, cs) ==
    IF s = <<>> THEN <<>>
    ELSE IF Head(s) \in cs THEN Remove(Tail(s), cs)
    ELSE <<Head(s)>> \o Remove(Tail(s), cs)

Whitespace == {" ", "\t", "\n", "\r"}

RECURSIVE LStrip(_)
LStrip(s) == IF s # <<>> /\ Head(s) \in Whitespace THEN LStrip(Tail(s)) ELSE s

RECURSIVE RStrip(_)
RStrip(s) ==
    IF s # <<>> /\ s[Len(s)] \in Whitespace THEN RStrip(SubSeq(s, 1, Len(s) - 1)) ELSE s

\* str.lower on the letters float() looks at
LowerChar(c) ==
    CASE c = "I" -> "i" [] c = "N" -> "n" [] c = "F" -> "f" [] c = "A" -> "a"
      [] c = "T" -> "t" [] c = "Y" -> "y" [] c = "E" -> "e" [] OTHER -> c

Lower(s) == [i \in 1..Len(s) |-> LowerChar(s[i])]

\* float() reads the numeral one character at a time.  The scanner's state:
\* ph, where it is in  digits [. digits] [e [sign] digits];  m, the digits read
\* as one integer;  f, how many of them follow the point;  x and xneg, the
\* exponent;  d, the last character was a digit;  u, an underscore waits for
\* the digit that must follow it
ScanStart ==
    [ph |-> "start", m |-> 0, f |-> 0, x |-> 0, xneg |-> FALSE, d |-> FALSE, u |-> FALSE]

ScanBad == [ScanStart EXCEPT !.ph = "bad"]

ScanStep(st, c) ==
    IF st.ph = "bad" THEN st
    ELSE IF c \in Digits THEN
        CASE st.ph \in {"start", "int"} ->
                [st EXCEPT !.ph = "int", !.m = st.m * 10 + DigitVal(c), !.d = TRUE, !.u = FALSE]
          [] st.ph \in {"dot", "frac"} ->
                [st EXCEPT !.ph = "frac", !.m = st.m * 10 + DigitVal(c), !.f = st.f + 1,
                           !.d = TRUE, !.u = FALSE]
          [] OTHER ->
                [st EXCEPT !.ph = "exp", !.x = st.x * 10 + DigitVal(c), !.d = TRUE, !.u = FALSE]
    ELSE IF st.u THEN ScanBad
    ELSE IF c = "_" THEN
        (IF st.d THEN [st EXCEPT !.d = FALSE, !.u = TRUE] ELSE ScanBad)
    ELSE IF c = "." THEN
        (CASE st.ph = "start" -> [st EXCEPT !.ph = "dot", !.d = FALSE]
           [] st.ph = "int"   -> [st EXCEPT !.ph = "frac", !.d = FALSE]
           [] OTHER           -> ScanBad)
    ELSE IF c \in {"e", "E"} THEN
        (IF st.ph \in {"int", "frac"} THEN [st EXCEPT !.ph = "e", !.d = FALSE] ELSE ScanBad)
    ELSE IF c \in {"+", "-"} THEN
        (IF st.ph = "e" THEN [st EXCEPT !.ph = "esign", !.xneg = (c = "-"), !.d = FALSE]
         ELSE ScanBad)
    ELSE ScanBad

RECURSIVE Scan(_, _, _)
Scan(s, i, st) == IF i > Len(s) THEN st ELSE Scan(s, i + 1, ScanStep(st, s[i]))

\* the numeral is complete after a digit of the integer part, after the point
\* of "5.", after a digit of the fraction or of the exponent
ScanResult(st) ==
    IF st.ph \in {"int", "frac", "exp"} /\ ~st.u
    THEN [ok |-> TRUE, v |-> Norm(st.m, st.f - (IF st.xneg THEN 0 - st.x ELSE st.x))]
    ELSE [ok |-> FALSE, v |-> FZero]

\* the part of the text after the sign
FloatBody(body, low) ==
    IF low \in {<<"i", "n", "f">>, <<"i", "n", "f", "i", "n", "i", "t", "y">>}
    THEN [ok |-> TRUE, v |-> FInf]
    ELSE IF low = <<"n", "a", "n">> THEN [ok |-> TRUE, v |-> FNaN]
    ELSE ScanResult(Scan(body, 1, ScanStart))

Negated(r) == IF r.ok THEN [ok |-> TRUE, v |-> FNeg(r.v)] ELSE r

FloatStripped(s) ==
    IF s # <<>> /\ Head(s) = "-" THEN Negated(FloatBody(Tail(s), Lower(Tail(s))))
    ELSE IF s # <<>> /\ Head(s) = "+" THEN FloatBody(Tail(s), Lower(Tail(s)))
    ELSE FloatBody(s, Lower(s))

\* Python's float(str): [ok |-> FALSE] stands for ValueError
PyFloat(s) == FloatStripped(RStrip(LStrip(s)))

\* try: return float(...)  except: return 0.0
except_return_zero(r) == [raised |-> FALSE, v |-> IF r.ok THEN r.v ELSE FZero]

\* clean_currency(x)
clean_currency(v) ==
    IF v.t = "str" THEN except_return_zero(PyFloat(Remove(v.s, {"$", ",", " "})))
    ELSE [raised |-> FALSE, v |-> IF notnull(v) THEN v.f ELSE FZero]

-----------------------------------------------------------------------------
(* Dates *)

\* pandas' NaT: what to_datetime(errors='coerce') gives for an unparseable cell
NaT == -1
\* '2025-10-01' and '2025-10-31', the bounds of the filter of every parser
OctFirst == 1
OctLast == 31

\* pd.to_datetime(cell, errors='coerce') without a format, on the date texts used
to_datetime(c) ==
    CASE c = "2025-09-30" -> 0
      [] c = "2025-10-01" -> 1
      [] c = "2025-10-02" -> 2
      [] c = "2025-10-03" -> 3
      [] c = "2025-10-31" -> 31
      [] c = "2025-11-01" -> 32
      [] OTHER -> NaT

\* pd.to_datetime(cell, format='%m/%d/%Y %H:%M', errors='coerce'), then .dt.date
to_datetime_mdy(c) ==
    CASE c = "09/30/2025 12:00" -> 0
      [] c = "10/01/2025 12:00" -> 1
      [] c = "10/02/2025 12:00" -> 2
      [] c = "10/03/2025 12:00" -> 3
      [] c = "10/31/2025 12:00" -> 31
      [] c = "11/01/2025 12:00" -> 32
      [] OTHER -> NaT

\* a filter that lets the rows without a date through
in_october_or_nat(d) == d = NaT \/ (d >= OctFirst /\ d <= OctLast)

\* a filter with the lower limit alone
in_october_or_later(d) == d # NaT /\ d >= OctFirst

\* (df['Date'] >= '2025-10-01') & (df['Date'] <= '2025-10-31'): NaT compares False
in_october(d) == d # NaT /\ d >= OctFirst /\ d <= OctLast

\* np.random.seed(42); np.random.randint(1, 32, size=n): the first draws of the
\* Mersenne Twister under that seed (the day of the month given to row i)
SyntheticDays == <<7, 20, 29, 15, 11, 8, 29, 21, 7, 26, 19, 23>>

\* a synthetic date only for the rows that show ########, the date read for the others
infer_missing_dates(rows) ==
    [i \in 1..Len(rows) |->
        IF rows[i].date = "########" THEN SyntheticDays[i] ELSE to_datetime(rows[i].date)]

\* infer_grubhub_dates(df): one October 2025 date per row, whatever the row holds
infer_grubhub_dates(rows) == [i \in 1..Len(rows) |-> SyntheticDays[i]]

-----------------------------------------------------------------------------
(* Files.  A file is [kind, lead, cols, rows]: kind "none" (nothing           *)
(* uploaded), "empty" (zero bytes), "undecodable" (bytes that are not UTF-8), *)
(* or "csv"; lead is the number of lines before the header line; cols the     *)
(* names on the header line; rows the data rows, one cell per field.          *)

NoFile == [kind |-> "none", lead |-> 0, cols |-> {}, rows |-> <<>>]

\* Uber Eats column names (src/app.py:137, 159, 163, 171)
U_DATE_A   == "u:order_date"
U_DATE_B   == "u:order_local_date"
U_DATE_C   == "Order Date"
U_REV_A    == "u:sales_incl_tax"
U_REV_B    == "u:meal_sales_total_incl_tax"
U_STATUS   == "u:order_status"
U_STORE_A  == "u:restaurant_name"
U_STORE_B  == "Restaurant"
\* DoorDash column names (src/app.py:189, 194, 197, 205)
D_DATE     == "dd:accept_local_time"
D_REV      == "dd:subtotal"
D_STATUS   == "dd:final_order_status"
D_STORE    == "dd:store_name"
\* Grubhub column names (src/app.py:222, 235, 238, 245); the order number is
\* a column of the export that the code never reads
G_DATE     == "transaction_date"
G_REV      == "subtotal"
G_TYPE     == "transaction_type"
G_STORE    == "store_name"
G_ID       == "order_number"

\* the cells pandas reads as missing (NaN)
NaStrings == {<<>>, <<"n", "a", "n">>, <<"N", "a", "N">>, <<"N", "A">>}

\* the value of an amount cell as read_csv hands it on: NaN for a missing cell,
\* else the text (a number pandas has already parsed has the value float() gives)
read_cell(c) == IF c \in NaStrings THEN Float(FNaN) ELSE Str(c)

\* Series.fillna('Unknown Store'): the empty cell is NaN
fillna_store(c) == IF c = "" THEN "Unknown Store" ELSE c

\* pd.read_csv(file, header=h): [exc, cols, rows]
read_csv(file, h) ==
    IF file.kind = "empty" THEN [exc |-> "EmptyDataError", cols |-> {}, rows |-> <<>>]
    ELSE IF file.kind = "undecodable" THEN [exc |-> "UnicodeDecodeError", cols |-> {}, rows |-> <<>>]
    ELSE IF file.lead = h THEN [exc |-> "", cols |-> file.cols, rows |-> file.rows]
    ELSE IF file.lead < h
         THEN \* the line after the header line is taken as the header
              IF file.rows = <<>>
              THEN [exc |-> "ParserError", cols |-> {}, rows |-> <<>>]
              ELSE [exc |-> "", cols |-> {}, rows |-> Tail(file.rows)]
         ELSE \* a line before the header line is taken as the header
              [exc |-> "", cols |-> {}, rows |-> file.rows]

RECURSIVE SelectOctober(_)
\* df[(df['Date'] >= '2025-10-01') & (df['Date'] <= '2025-10-31')]
SelectOctober(t) ==
    IF t = <<>> THEN <<>>
    ELSE IF in_october(Head(t).Date) THEN <<Head(t)>> \o SelectOctober(Tail(t))
    ELSE SelectOctober(Tail(t))

-----------------------------------------------------------------------------
(* The parsers.  parse_x_try is the body of the try block: exc names the     *)
(* exception it raises ("" for none), ret the table it returns.              *)

\* the completed words matched by their common part, which the word for
\* incomplete shares
U_COMPLETED_by_substring == {"zh:completed", "Completed", "zh:incomplete"}

U_COMPLETED == {"zh:completed", "Completed"}
U_CANCELLED == {"zh:cancelled", "zh:refund", "zh:incomplete"}

parse_uber_try(file) ==
    LET csv == read_csv(file, 1)
        cols == csv.cols
        date_col == IF U_DATE_A \in cols THEN U_DATE_A
                    ELSE IF U_DATE_B \in cols THEN U_DATE_B
                    ELSE IF U_DATE_C \in cols THEN U_DATE_C
                    ELSE ""
        revenue_col == IF U_REV_A \in cols THEN U_REV_A ELSE U_REV_B
        store_col == IF U_STORE_A \in cols THEN U_STORE_A ELSE U_STORE_B
        rec(r) == [Date         |-> to_datetime(r.date),
                   Revenue      |-> IF revenue_col \in cols
                                    THEN clean_currency(read_cell(r.amount)).v
                                    ELSE FZero,
                   Store        |-> IF store_col \in cols THEN fillna_store(r.store)
                                    ELSE "Unknown Store",
                   Platform     |-> "Uber Eats",
                   Is_Completed |-> IF U_STATUS \in cols THEN r.status \in U_COMPLETED ELSE TRUE,
                   Is_Cancelled |-> IF U_STATUS \in cols THEN r.status \in U_CANCELLED ELSE FALSE]
    IN  IF csv.exc # "" THEN [exc |-> csv.exc, ret |-> <<>>]
        ELSE IF date_col = "" THEN [exc |-> "", ret |-> <<>>]
        ELSE [exc |-> "", ret |-> SelectOctober([i \in 1..Len(csv.rows) |-> rec(csv.rows[i])])]

D_COMPLETED == {"Delivered", "zh:completed"}
D_CANCELLED == {"Cancelled", "Merchant Cancelled"}

parse_doordash_try(file) ==
    LET csv == read_csv(file, 0)
        cols == csv.cols
        rec(r) == [Date         |-> to_datetime_mdy(r.date),
                   Revenue      |-> clean_currency(read_cell(r.amount)).v,
                   Store        |-> IF D_STORE \in cols THEN fillna_store(r.store)
                                    ELSE "Unknown Store",
                   Platform     |-> "DoorDash",
                   Is_Completed |-> IF D_STATUS \in cols THEN r.status \in D_COMPLETED ELSE TRUE,
                   Is_Cancelled |-> IF D_STATUS \in cols THEN r.status \in D_CANCELLED ELSE FALSE]
    IN  IF csv.exc # "" THEN [exc |-> csv.exc, ret |-> <<>>]
        ELSE IF D_DATE \notin cols THEN [exc |-> "KeyError", ret |-> <<>>]
        ELSE IF D_REV \notin cols THEN [exc |-> "KeyError", ret |-> <<>>]
        ELSE [exc |-> "", ret |-> SelectOctober([i \in 1..Len(csv.rows) |-> rec(csv.rows[i])])]

\* Series.str.contains('Cancel|Refund', case=False, na=False) on the
\* transaction types used
contains_cancel_refund(t) ==
    t \in {"Cancellation", "Refund", "Cancelled Order", "Prepaid Order Refund", "refund"}

\* a row counted as completed whenever it is not a cancellation or refund
grubhub_not_cancelled(t) == ~contains_cancel_refund(t)

\* ~df['Is_Cancelled'] & (df['transaction_type'] == 'Prepaid Order')
grubhub_is_completed(t) == ~contains_cancel_refund(t) /\ t = "Prepaid Order"

parse_grubhub_try(file) ==
    LET csv == read_csv(file, 0)
        cols == csv.cols
        synthetic == csv.rows[1].date = "########"
        dates == IF synthetic THEN infer_grubhub_dates(csv.rows)
                 ELSE [i \in 1..Len(csv.rows) |-> to_datetime(csv.rows[i].date)]
        cancelled(r) == contains_cancel_refund(r.type)
        rec(i) == LET r == csv.rows[i]
                  IN [Date         |-> dates[i],
                      Revenue      |-> clean_currency(read_cell(r.amount)).v,
                      Store        |-> fillna_store(r.store),
                      Platform     |-> "Grubhub",
                      Is_Completed |-> IF G_TYPE \in cols
                                       THEN grubhub_is_completed(r.type)
                                       ELSE TRUE,
                      Is_Cancelled |-> IF G_TYPE \in cols THEN cancelled(r) ELSE FALSE]
    IN  IF csv.exc # "" THEN [exc |-> csv.exc, ret |-> <<>>]
        ELSE IF G_DATE \notin cols THEN [exc |-> "KeyError", ret |-> <<>>]
        ELSE IF csv.rows = <<>> THEN [exc |-> "IndexError", ret |-> <<>>]
        ELSE IF G_REV \notin cols THEN [exc |-> "KeyError", ret |-> <<>>]
        ELSE IF G_STORE \notin cols THEN [exc |-> "KeyError", ret |-> <<>>]
        ELSE [exc |-> "", ret |-> SelectOctober([i \in 1..Len(csv.rows) |-> rec(i)])]

\* a handler that catches KeyError alone: anything else escapes
except_KeyError(r, msg) ==
    IF r.exc = "" THEN [table |-> r.ret, error |-> <<>>, raised |-> FALSE]
    ELSE IF r.exc = "KeyError" THEN [table |-> <<>>, error |-> <<msg>>, raised |-> FALSE]
    ELSE [table |-> <<>>, error |-> <<>>, raised |-> TRUE]

\* except Exception as e: st.error(...); return pd.DataFrame()
except_Exception(r, msg) ==
    IF r.exc = "" THEN [table |-> r.ret, error |-> <<>>, raised |-> FALSE]
    ELSE [table |-> <<>>, error |-> <<msg>>, raised |-> FALSE]

parse_uber(file) == except_Exception(parse_uber_try(file), "Uber Parse Error")
parse_doordash(file) == except_Exception(parse_doordash_try(file), "DoorDash Parse Error")
parse_grubhub(file) == except_Exception(parse_grubhub_try(file), "Grubhub Parse Error")

-----------------------------------------------------------------------------
(* The aggregator *)

\* df[mask] is SelectSeq(df, mask): the rows for which the mask holds, in order

IsCompleted(r) == r.Is_Completed
IsCancelled(r) == r.Is_Cancelled
HasRevenue(r) == r.Revenue.cls # "nan"

\* every row taken, the completed flag not looked at
all_rows(t) == t

\* df[df['Is_Completed'] == True]
completed_rows(t) == SelectSeq(t, IsCompleted)

RECURSIVE revenue_sum(_)
\* Series.sum() of the Revenue column: NaN entries are skipped
revenue_sum(t) ==
    IF t = <<>> THEN FZero
    ELSE IF HasRevenue(Head(t)) THEN FAdd(Head(t).Revenue, revenue_sum(Tail(t)))
    ELSE revenue_sum(Tail(t))

\* Series.mean() of the Revenue column: the quotient (m * 10^-e) / n over the
\* entries that are not NaN, NaN when there is none
revenue_mean(t) ==
    LET n == Len(SelectSeq(t, HasRevenue))
        sum == revenue_sum(t)
    IN  IF n = 0 THEN [cls |-> "nan", m |-> 0, e |-> 0, n |-> 1]
        ELSE [cls |-> sum.cls, m |-> sum.m, e |-> sum.e, n |-> n]

\* df['Is_Cancelled'].sum()
cancelled_count(t) == Len(SelectSeq(t, IsCancelled))

\* calculate_growth_rate(current, previous) on order counts: a quotient num / den
calculate_growth_rate(current, previous) ==
    IF previous = 0 THEN [cls |-> "fin", num |-> 0, den |-> 1]
    ELSE [cls |-> "fin", num |-> (current - previous) * 100, den |-> previous]

\* calculate_growth_rate(total_revenue, total_revenue * 0.89)
revenue_growth_rate(rev) ==
    IF rev.cls = "fin" /\ rev.m = 0 THEN [cls |-> "fin", num |-> 0, den |-> 1]
    ELSE IF rev.cls = "fin" THEN [cls |-> "fin", num |-> 1100, den |-> 89]
    ELSE [cls |-> "nan", num |-> 0, den |-> 1]

\* the rate taken over the completed rows instead of all rows
cancel_rate_of_completed(t) ==
    IF Len(completed_rows(t)) > 0
    THEN [num |-> cancelled_count(t) * 100, den |-> Len(completed_rows(t))]
    ELSE [num |-> 0, den |-> 1]

\* (df['Is_Cancelled'].sum() / len(df)) * 100 if len(df) > 0 else 0, as num / den
cancel_rate(t) ==
    IF Len(t) > 0 THEN [num |-> cancelled_count(t) * 100, den |-> Len(t)]
    ELSE [num |-> 0, den |-> 1]

create_executive_summary(t) ==
    LET completed_df == completed_rows(t)
        total_orders == Len(completed_df)
        total_revenue == revenue_sum(completed_df)
        prev_month_orders == (total_orders * 92) \div 100
    IN  [total_orders    |-> total_orders,
         total_revenue   |-> total_revenue,
         avg_order_value |-> revenue_mean(completed_df),
         orders_growth   |-> calculate_growth_rate(total_orders, prev_month_orders),
         revenue_growth  |-> revenue_growth_rate(total_revenue),
         cancel_rate     |-> cancel_rate(t)]

\* generate_business_insights: whether the list holds the high-cancellation
\* insight.  The function returns early when no row is completed.
cancellation_insight(t) ==
    IF completed_rows(t) = <<>> THEN FALSE
    ELSE cancel_rate(t).num > 5 * cancel_rate(t).den

Platforms == <<"Uber Eats", "DoorDash", "Grubhub">>

\* the dates of the table, ascending (the keys of a groupby on Date)
DatesOf(t) == {t[i].Date : i \in 1..Len(t)}

RECURSIVE SortedSeq(_)
SortedSeq(S) ==
    IF S = {} THEN <<>>
    ELSE LET lo == CHOOSE a \in S : \A b \in S : a <= b
         IN  <<lo>> \o SortedSeq(S \ {lo})

\* create_platform_comparison, the daily trend: completed_df.groupby(['Date',
\* 'Platform']).size(), then one trace per platform that occurs, holding the
\* (Date, Orders) pairs of that platform
daily_trend(t) ==
    LET completed_df == completed_rows(t)
        of(p) == SelectSeq(completed_df, LAMBDA r : r.Platform = p)
        size(p, d) == Len(SelectSeq(of(p), LAMBDA r : r.Date = d))
        days(p) == SortedSeq(DatesOf(of(p)))
    IN  [p \in {Platforms[i] : i \in 1..3} |->
            [i \in 1..Len(days(p)) |-> [Date |-> days(p)[i], Orders |-> size(p, days(p)[i])]]]

\* round(): the integer nearest to num / den (num >= 0, den > 0), a tie going
\* to the even one
round_half_even(num, den) ==
    LET q == num \div den
        r == num % den
    IN  IF 2 * r < den THEN q
        ELSE IF 2 * r > den THEN q + 1
        ELSE IF q % 2 = 0 THEN q ELSE q + 1

\* .round(2) of a rate num / den: a number of hundredths
round2_rate(rate) == [num |-> round_half_even(rate.num * 100, rate.den), den |-> 100]

\* .round(2) of a float
round2_float(f) ==
    IF f.cls # "fin" \/ f.e <= 2 THEN f
    ELSE IF f.m >= 0 THEN Norm(round_half_even(f.m, Pow10(f.e - 2)), 2)
    ELSE Norm(0 - round_half_even(0 - f.m, Pow10(f.e - 2)), 2)

\* the keys of groupby('Platform'), and the rows of one group
platforms_in(t) == {t[i].Platform : i \in 1..Len(t)}
platform_rows(t, p) == SelectSeq(t, LAMBDA r : r.Platform = p)

\* the rate of a platform taken over all of its rows
detailed_cancel_rate_all_rows(t, p) == cancel_rate(platform_rows(t, p))

\* completed_df.groupby('Platform').agg({'Is_Cancelled': lambda x: (x.sum() /
\* len(x)) * 100 if len(x) > 0 else 0}): the group holds the completed rows only
detailed_cancel_rate(t, p) == cancel_rate(platform_rows(completed_rows(t), p))

\* main, the detailed platform metrics table: one line per platform that has
\* a completed row, with the Orders, Total Revenue and Cancel Rate % columns
\* (AOV, Revenue Std and CV % are further columns of the displayed table)
platform_detailed_table(t) ==
    [p \in {Platforms[i] : i \in 1..3} |->
        IF p \in platforms_in(completed_rows(t))
        THEN [present       |-> TRUE,
              Orders        |-> Len(SelectSeq(platform_rows(completed_rows(t), p), HasRevenue)),
              Total_Revenue |-> round2_float(revenue_sum(platform_rows(completed_rows(t), p))),
              Cancel_Rate   |-> round2_rate(detailed_cancel_rate(t, p))]
        ELSE [present |-> FALSE, Orders |-> 0, Total_Revenue |-> FZero,
              Cancel_Rate |-> [num |-> 0, den |-> 100]]]

\* main, the cancellation chart: df.groupby('Platform')['Is_Cancelled']
\* .apply(lambda x: (x.sum() / len(x)) * 100).round(2), one bar per platform
\* that has a row
cancel_by_platform_series(t) ==
    [p \in {Platforms[i] : i \in 1..3} |->
        IF p \in platforms_in(t)
        THEN [present |-> TRUE, rate |-> round2_rate(cancel_rate(platform_rows(t, p)))]
        ELSE [present |-> FALSE, rate |-> [num |-> 0, den |-> 100]]]

RECURSIVE sort_by_date(_)
\* df.sort_values('Date'): insertion of each row after the rows that are not later
sort_by_date(t) ==
    IF t = <<>> THEN <<>>
    ELSE LET rest == sort_by_date(SubSeq(t, 1, Len(t) - 1))
             r == t[Len(t)]
             k == Len(SelectSeq(rest, LAMBDA q : q.Date <= r.Date))
         IN  SubSeq(rest, 1, k) \o <<r>> \o SubSeq(rest, k + 1, Len(rest))

\* the first table alone, the others forgotten
first_frame(fs) == Head(fs)

RECURSIVE concat(_)
\* pd.concat(data_frames, ignore_index=True)
concat(fs) == IF fs = <<>> THEN <<>> ELSE Head(fs) \o concat(Tail(fs))

-----------------------------------------------------------------------------
(* The inputs the model is run on *)

\* the sequences over S of length at most n
Seqs(S, n) == UNION {[1..k -> S] : k \in 0..n}

A5   == <<"$", "5", ".", "0", "0">>
ABad == <<"a", "b", "c">>

EmptyFile       == [kind |-> "empty", lead |-> 0, cols |-> {}, rows |-> <<>>]
UndecodableFile == [kind |-> "undecodable", lead |-> 0, cols |-> {}, rows |-> <<>>]
Csv(l, c, rs)   == [kind |-> "csv", lead |-> l, cols |-> c, rows |-> rs]

\* files handed to one parser alone: every subset of the expected columns, the
\* aliases, the header on the first or the second line, rows with dates inside
\* and outside October 2025 and unparseable, every kind of status
ParseUberRows ==
    {[date |-> d, amount |-> A5, status |-> st, store |-> "Store A"] :
        d \in {"2025-10-01", "2025-11-01", "n/a"},
        st \in {"zh:completed", "zh:cancelled", "Cancelled"}}
    \cup {[date |-> "2025-10-01", amount |-> A5, status |-> "zh:incomplete", store |-> "Store A"],
          [date |-> "2025-10-01", amount |-> ABad, status |-> "zh:completed", store |-> "Store A"],
          [date |-> "2025-10-03", amount |-> A5, status |-> "zh:completed", store |-> ""]}

UberColSets ==
    {dc \cup rc \cup sc \cup lc :
        dc \in {{}, {U_DATE_A}}, rc \in {{}, {U_REV_A}},
        sc \in {{}, {U_STATUS}}, lc \in {{}, {U_STORE_A}}}
    \cup {{U_DATE_B, U_REV_B, U_STATUS, U_STORE_B}, {U_DATE_C, U_REV_A, U_STATUS, U_STORE_B}}

ParseUberFiles ==
    {Csv(l, c, rs) : l \in {0, 1}, c \in UberColSets, rs \in Seqs(ParseUberRows, MaxRows)}
    \cup {EmptyFile, UndecodableFile}

ParseDdRows ==
    {[date |-> d, amount |-> A5, status |-> st, store |-> "Store A"] :
        d \in {"10/01/2025 12:00", "11/01/2025 12:00", "2025-10-01"},
        st \in {"Delivered", "Cancelled", "Picked Up"}}
    \cup {[date |-> "10/01/2025 12:00", amount |-> ABad, status |-> "Delivered", store |-> "Store A"],
          [date |-> "10/03/2025 12:00", amount |-> A5, status |-> "Delivered", store |-> ""]}

DdColSets ==
    {dc \cup rc \cup sc \cup lc :
        dc \in {{}, {D_DATE}}, rc \in {{}, {D_REV}},
        sc \in {{}, {D_STATUS}}, lc \in {{}, {D_STORE}}}

ParseDdFiles ==
    {Csv(0, c, rs) : c \in DdColSets, rs \in Seqs(ParseDdRows, MaxRows)}
    \cup {EmptyFile, UndecodableFile}

ParseGhRows ==
    {[date |-> d, amount |-> A5, type |-> ty, store |-> "Store A", id |-> "o1"] :
        d \in {"2025-10-01", "2025-11-01", "########"},
        ty \in {"Prepaid Order", "Cancellation", "Order Adjustment"}}
    \cup {[date |-> "2025-10-01", amount |-> A5, type |-> ty, store |-> "Store A", id |-> "o1"] :
            ty \in {"Tax", "Refund"}}
    \cup {[date |-> "2025-10-01", amount |-> ABad, type |-> "Prepaid Order", store |-> "Store A", id |-> "o2"],
          [date |-> "2025-10-03", amount |-> A5, type |-> "Prepaid Order", store |-> "", id |-> "o2"]}

GhColSets ==
    {{G_ID} \cup dc \cup rc \cup sc \cup lc :
        dc \in {{}, {G_DATE}}, rc \in {{}, {G_REV}},
        sc \in {{}, {G_TYPE}}, lc \in {{}, {G_STORE}}}

ParseGhFiles ==
    {Csv(0, c, rs) : c \in GhColSets, rs \in Seqs(ParseGhRows, MaxRows)}
    \cup {EmptyFile, UndecodableFile}

\* files of a run of main: every column present
UberAllCols == {U_DATE_A, U_REV_A, U_STATUS, U_STORE_A}
DdAllCols   == {D_DATE, D_REV, D_STATUS, D_STORE}
GhAllCols   == {G_ID, G_DATE, G_REV, G_TYPE, G_STORE}

MainUberRows ==
    {[date |-> d, amount |-> A5, status |-> st, store |-> "Store A"] :
        d \in {"2025-10-01", "2025-10-03"}, st \in {"zh:completed", "zh:cancelled"}}

MainUberFiles ==
    {Csv(1, UberAllCols, rs) : rs \in Seqs(MainUberRows, MaxOrders)}
    \cup {NoFile, UndecodableFile}

MainDdRows ==
    {[date |-> d, amount |-> A5, status |-> st, store |-> "Store B"] :
        d \in {"10/01/2025 12:00", "10/03/2025 12:00"}, st \in {"Delivered", "Cancelled"}}

MainDdFiles ==
    {Csv(0, DdAllCols, rs) : rs \in Seqs(MainDdRows, MaxOrders)}
    \cup {NoFile, UndecodableFile}

\* Grubhub rows of up to two orders: the paid row, a tax row, a refund row
MainGhRows ==
    {[date |-> "2025-10-01", amount |-> A5, type |-> ty, store |-> "Store C", id |-> o] :
        ty \in {"Prepaid Order", "Tax", "Refund"}, o \in {"o1", "o2"}}

MainGhFiles == {Csv(0, GhAllCols, rs) : rs \in Seqs(MainGhRows, MaxGhRows)}

OneUberFile == Csv(1, UberAllCols,
    <<[date |-> "2025-10-03", amount |-> A5, status |-> "zh:completed", store |-> "Store A"]>>)

FewGhFiles ==
    {NoFile, EmptyFile,
     Csv(0, GhAllCols, <<[date |-> "2025-10-01", amount |-> A5, type |-> "Prepaid Order",
                          store |-> "Store C", id |-> "o1"]>>)}

\* arguments of clean_currency: every text up to MaxLen over the alphabet, the
\* texts of the specification, floats, and None
CurrencyAlphabet == {"$", ",", " ", "(", ")", "-", ".", "5", "0", "n", "a", "i", "f"}

CurrencySamples ==
    {<<"$", "1", ",", "2", "3", "4", ".", "5", "6">>,
     <<"(", "5", ".", "0", "0", ")">>,
     <<" ", " ", "7", " ">>,
     <<"I", "n", "f", "i", "n", "i", "t", "y">>,
     <<"1", "e", "2">>, <<"1", "_", "0">>, <<"1", "_">>, <<"+", "2", "5", "E", "-", "1">>,
     <<"\t", "7">>, <<"a", "b", "c", "d">>}

CurrencyArgs ==
    {Str(s) : s \in Seqs(CurrencyAlphabet, MaxLen) \cup CurrencySamples}
    \cup {Float(f) : f \in {FZero, Norm(750, 2), FNaN, FInf}}
    \cup {PyNone}

\* merged tables handed to the aggregator directly: sorted by Date, as main sorts
SummaryRecs ==
    {[Date |-> d, Revenue |-> Norm(500, 2), Store |-> "Store A", Platform |-> p,
      Is_Completed |-> f[1], Is_Cancelled |-> f[2]] :
        d \in {1, 3}, p \in {"Uber Eats", "Grubhub"},
        f \in {<<TRUE, FALSE>>, <<FALSE, TRUE>>, <<FALSE, FALSE>>}}

SummaryTables ==
    {t \in Seqs(SummaryRecs, MaxRecs) : \A i \in 1..(Len(t) - 1) : t[i].Date <= t[i + 1].Date}

-----------------------------------------------------------------------------
(* State *)

NoSummary ==
    [total_orders    |-> 0,
     total_revenue   |-> FZero,
     avg_order_value |-> [cls |-> "nan", m |-> 0, e |-> 0, n |-> 1],
     orders_growth   |-> [cls |-> "fin", num |-> 0, den |-> 1],
     revenue_growth  |-> [cls |-> "fin", num |-> 0, den |-> 1],
     cancel_rate     |-> [num |-> 0, den |-> 1]]

NoTrend == [p \in {Platforms[i] : i \in 1..3} |-> <<>>]

NoAmount == [raised |-> FALSE, v |-> FZero]

NoDetailed ==
    [p \in {Platforms[i] : i \in 1..3} |->
        [present |-> FALSE, Orders |-> 0, Total_Revenue |-> FZero, Cancel_Rate |-> [num |-> 0, den |-> 100]]]

NoCancelChart ==
    [p \in {Platforms[i] : i \in 1..3} |-> [present |-> FALSE, rate |-> [num |-> 0, den |-> 100]]]

\* the state before anything ran: the uploads, the position, clean_currency's argument
Begin(u, d, g, p, v) ==
    /\ uber_file = u /\ dd_file = d /\ gh_file = g
    /\ df_uber = <<>> /\ df_dd = <<>> /\ df_gh = <<>>
    /\ st_errors = <<>>
    /\ raised = FALSE
    /\ data_frames = <<>>
    /\ df = <<>>
    /\ summary = NoSummary
    /\ insight_cancel = FALSE
    /\ daily_platform = NoTrend
    /\ view = "none"
    /\ pc = p
    /\ x = v
    /\ amount = NoAmount
    /\ platform_detailed = NoDetailed
    /\ cancel_by_platform = NoCancelChart

Start(u, d, g, p) == Begin(u, d, g, p, PyNone)

-----------------------------------------------------------------------------
(* main, src/app.py:617-644, 698, 784, 998 *)

Init ==
    \/ \E u \in MainUberFiles, d \in MainDdFiles, g \in FewGhFiles : Start(u, d, g, "uber")
    \/ \E u \in {NoFile, OneUberFile}, g \in MainGhFiles : Start(u, NoFile, g, "uber")

\* if uber_file: df_uber = parse_uber(uber_file); if not df_uber.empty: append
ProcessUber ==
    /\ pc = "uber"
    /\ \E r \in {IF uber_file.kind # "none" THEN parse_uber(uber_file)
                   ELSE [table |-> <<>>, error |-> <<>>, raised |-> FALSE]} :
           /\ df_uber' = r.table
           /\ st_errors' = st_errors \o r.error
           /\ raised' = r.raised
           /\ data_frames' = IF r.table # <<>> THEN Append(data_frames, r.table) ELSE data_frames
           /\ pc' = IF r.raised THEN "aborted" ELSE "dd"
    /\ UNCHANGED <<uber_file, dd_file, gh_file, df_dd, df_gh, df, summary, insight_cancel,
                   daily_platform, view, x, amount,
                   platform_detailed, cancel_by_platform>>

ProcessDoordash ==
    /\ pc = "dd"
    /\ \E r \in {IF dd_file.kind # "none" THEN parse_doordash(dd_file)
                   ELSE [table |-> <<>>, error |-> <<>>, raised |-> FALSE]} :
           /\ df_dd' = r.table
           /\ st_errors' = st_errors \o r.error
           /\ raised' = r.raised
           /\ data_frames' = IF r.table # <<>> THEN Append(data_frames, r.table) ELSE data_frames
           /\ pc' = IF r.raised THEN "aborted" ELSE "gh"
    /\ UNCHANGED <<uber_file, dd_file, gh_file, df_uber, df_gh, df, summary, insight_cancel,
                   daily_platform, view, x, amount,
                   platform_detailed, cancel_by_platform>>

ProcessGrubhub ==
    /\ pc = "gh"
    /\ \E r \in {IF gh_file.kind # "none" THEN parse_grubhub(gh_file)
                   ELSE [table |-> <<>>, error |-> <<>>, raised |-> FALSE]} :
           /\ df_gh' = r.table
           /\ st_errors' = st_errors \o r.error
           /\ raised' = r.raised
           /\ data_frames' = IF r.table # <<>> THEN Append(data_frames, r.table) ELSE data_frames
           /\ pc' = IF r.raised THEN "aborted" ELSE "combine"
    /\ UNCHANGED <<uber_file, dd_file, gh_file, df_uber, df_dd, df, summary, insight_cancel,
                   daily_platform, view, x, amount,
                   platform_detailed, cancel_by_platform>>

\* the merge taken without looking whether any table was collected
CombineUnguarded ==
    /\ pc = "combine"
    /\ df' = sort_by_date(concat(data_frames))
    /\ view' = "dashboard"
    /\ pc' = "summary"
    /\ UNCHANGED <<uber_file, dd_file, gh_file, df_uber, df_dd, df_gh, st_errors, raised,
                   data_frames, summary, insight_cancel, daily_platform, x, amount,
                   platform_detailed, cancel_by_platform>>

\* if data_frames: df = pd.concat(...); df = df.sort_values('Date')
Combine ==
    /\ pc = "combine"
    /\ data_frames # <<>>
    /\ df' = sort_by_date(concat(data_frames))
    /\ view' = "dashboard"
    /\ pc' = "summary"
    /\ UNCHANGED <<uber_file, dd_file, gh_file, df_uber, df_dd, df_gh, st_errors, raised,
                   data_frames, summary, insight_cancel, daily_platform, x, amount,
                   platform_detailed, cancel_by_platform>>

\* else: the welcome screen
Welcome ==
    /\ pc = "combine"
    /\ data_frames = <<>>
    /\ view' = "welcome"
    /\ pc' = "done"
    /\ UNCHANGED <<uber_file, dd_file, gh_file, df_uber, df_dd, df_gh, st_errors, raised,
                   data_frames, df, summary, insight_cancel, daily_platform, x, amount,
                   platform_detailed, cancel_by_platform>>

ExecutiveSummary ==
    /\ pc = "summary"
    /\ summary' = create_executive_summary(df)
    /\ pc' = "insights"
    /\ UNCHANGED <<uber_file, dd_file, gh_file, df_uber, df_dd, df_gh, st_errors, raised,
                   data_frames, df, insight_cancel, daily_platform, view, x, amount,
                   platform_detailed, cancel_by_platform>>

BusinessInsights ==
    /\ pc = "insights"
    /\ insight_cancel' = cancellation_insight(df)
    /\ pc' = "platform"
    /\ UNCHANGED <<uber_file, dd_file, gh_file, df_uber, df_dd, df_gh, st_errors, raised,
                   data_frames, df, summary, daily_platform, view, x, amount,
                   platform_detailed, cancel_by_platform>>

PlatformComparison ==
    /\ pc = "platform"
    /\ daily_platform' = daily_trend(df)
    /\ pc' = "detailed"
    /\ UNCHANGED <<uber_file, dd_file, gh_file, df_uber, df_dd, df_gh, st_errors, raised,
                   data_frames, df, summary, insight_cancel, view, x, amount,
                   platform_detailed, cancel_by_platform>>

\* the detailed platform metrics table of the platform tab
PlatformDetailed ==
    /\ pc = "detailed"
    /\ platform_detailed' = platform_detailed_table(df)
    /\ pc' = "issues"
    /\ UNCHANGED <<uber_file, dd_file, gh_file, df_uber, df_dd, df_gh, st_errors, raised,
                   data_frames, df, summary, insight_cancel, daily_platform, view, x, amount,
                   cancel_by_platform>>

\* the order issues analysis: the cancellation rate per platform
CancelByPlatform ==
    /\ pc = "issues"
    /\ cancel_by_platform' = cancel_by_platform_series(df)
    /\ pc' = "done"
    /\ UNCHANGED <<uber_file, dd_file, gh_file, df_uber, df_dd, df_gh, st_errors, raised,
                   data_frames, df, summary, insight_cancel, daily_platform, view, x, amount,
                   platform_detailed>>

Next ==
    \/ ProcessUber
    \/ ProcessDoordash
    \/ ProcessGrubhub
    \/ Combine
    \/ Welcome
    \/ ExecutiveSummary
    \/ BusinessInsights
    \/ PlatformComparison
    \/ PlatformDetailed
    \/ CancelByPlatform

Spec == Init /\ [][Next]_vars

-----------------------------------------------------------------------------
(* One parser called on one file *)

InitParse ==
    \/ \E f \in ParseUberFiles : Start(f, NoFile, NoFile, "call")
    \/ \E f \in ParseDdFiles : Start(NoFile, f, NoFile, "call")
    \/ \E f \in ParseGhFiles : Start(NoFile, NoFile, f, "call")

CallParseUber ==
    /\ pc = "call"
    /\ uber_file.kind # "none"
    /\ \E r \in {parse_uber(uber_file)} :
           df_uber' = r.table /\ st_errors' = r.error /\ raised' = r.raised
    /\ pc' = "returned"
    /\ UNCHANGED <<uber_file, dd_file, gh_file, df_dd, df_gh, data_frames, df, summary,
                   insight_cancel, daily_platform, view, x, amount,
                   platform_detailed, cancel_by_platform>>

CallParseDoordash ==
    /\ pc = "call"
    /\ dd_file.kind # "none"
    /\ \E r \in {parse_doordash(dd_file)} :
           df_dd' = r.table /\ st_errors' = r.error /\ raised' = r.raised
    /\ pc' = "returned"
    /\ UNCHANGED <<uber_file, dd_file, gh_file, df_uber, df_gh, data_frames, df, summary,
                   insight_cancel, daily_platform, view, x, amount,
                   platform_detailed, cancel_by_platform>>

CallParseGrubhub ==
    /\ pc = "call"
    /\ gh_file.kind # "none"
    /\ \E r \in {parse_grubhub(gh_file)} :
           df_gh' = r.table /\ st_errors' = r.error /\ raised' = r.raised
    /\ pc' = "returned"
    /\ UNCHANGED <<uber_file, dd_file, gh_file, df_uber, df_dd, data_frames, df, summary,
                   insight_cancel, daily_platform, view, x, amount,
                   platform_detailed, cancel_by_platform>>

NextParse == CallParseUber \/ CallParseDoordash \/ CallParseGrubhub

SpecParse == InitParse /\ [][NextParse]_vars

-----------------------------------------------------------------------------
(* clean_currency called on one value *)

InitCurrency == \E v \in CurrencyArgs : Begin(NoFile, NoFile, NoFile, "clean", v)

CleanCurrency ==
    /\ pc = "clean"
    /\ amount' = clean_currency(x)
    /\ pc' = "cleaned"
    /\ UNCHANGED <<pipeVars, x>>

NextCurrency == CleanCurrency

SpecCurrency == InitCurrency /\ [][NextCurrency]_vars

-----------------------------------------------------------------------------
(* The aggregator called on one merged table *)

InitSummary ==
    \E t \in SummaryTables :
        /\ uber_file = NoFile /\ dd_file = NoFile /\ gh_file = NoFile
        /\ df_uber = <<>> /\ df_dd = <<>> /\ df_gh = <<>>
        /\ st_errors = <<>>
        /\ raised = FALSE
        /\ data_frames = <<>>
        /\ df = t
        /\ summary = NoSummary
        /\ insight_cancel = FALSE
        /\ daily_platform = NoTrend
        /\ view = "dashboard"
        /\ pc = "summary"
        /\ x = PyNone
        /\ amount = NoAmount
        /\ platform_detailed = NoDetailed
        /\ cancel_by_platform = NoCancelChart

NextSummary ==
    \/ ExecutiveSummary
    \/ BusinessInsights
    \/ PlatformComparison
    \/ PlatformDetailed
    \/ CancelByPlatform

SpecSummary == InitSummary /\ [][NextSummary]_vars

-----------------------------------------------------------------------------
(* Properties of the parsers, checked under SpecParse *)

\* the file the parser was called on, the table it returned, the channel
CalledFile ==
    IF uber_file.kind # "none" THEN uber_file
    ELSE IF dd_file.kind # "none" THEN dd_file ELSE gh_file

Returned ==
    IF uber_file.kind # "none" THEN df_uber
    ELSE IF dd_file.kind # "none" THEN df_dd ELSE df_gh

\* the expected source columns that the header line of the called file lacks
MissingColumns ==
    IF uber_file.kind # "none" THEN
        {c \in {"date", "amount", "status", "location"} :
            \/ c = "date" /\ uber_file.cols \cap {U_DATE_A, U_DATE_B, U_DATE_C} = {}
            \/ c = "amount" /\ uber_file.cols \cap {U_REV_A, U_REV_B} = {}
            \/ c = "status" /\ U_STATUS \notin uber_file.cols
            \/ c = "location" /\ uber_file.cols \cap {U_STORE_A, U_STORE_B} = {}}
    ELSE IF dd_file.kind # "none" THEN
        {c \in {"date", "amount", "status", "location"} :
            \/ c = "date" /\ D_DATE \notin dd_file.cols
            \/ c = "amount" /\ D_REV \notin dd_file.cols
            \/ c = "status" /\ D_STATUS \notin dd_file.cols
            \/ c = "location" /\ D_STORE \notin dd_file.cols}
    ELSE
        {c \in {"date", "amount", "status", "location"} :
            \/ c = "date" /\ G_DATE \notin gh_file.cols
            \/ c = "amount" /\ G_REV \notin gh_file.cols
            \/ c = "status" /\ G_TYPE \notin gh_file.cols
            \/ c = "location" /\ G_STORE \notin gh_file.cols}

\* the data rows of the called file whose timestamp the parser can read
ParseableRows ==
    {i \in 1..Len(CalledFile.rows) :
        IF dd_file.kind # "none" THEN to_datetime_mdy(CalledFile.rows[i].date) # NaT
        ELSE to_datetime(CalledFile.rows[i].date) # NaT}

\* the Grubhub file whose first row shows its date as ########
HashedGrubhub ==
    /\ gh_file.kind = "csv"
    /\ gh_file.rows # <<>>
    /\ gh_file.rows[1].date = "########"

\* C1: each parser, on every file (empty, zero data rows, a column missing,
\* undecodable), returns a table and raises nothing to its caller; when the
\* file cannot be read or parsing fails, the table it returns is empty.
C1_ParsersNeverRaise ==
    pc = "returned" =>
        /\ ~raised
        /\ (CalledFile.kind \in {"empty", "undecodable"} \/ st_errors # <<>>) => Returned = <<>>

\* the Grubhub parser hit a missing subtotal column, reported it and returned an
\* empty table
C1_Witness ==
    /\ pc = "returned"
    /\ gh_file.kind = "csv" /\ gh_file.rows # <<>> /\ G_DATE \in gh_file.cols
    /\ G_REV \notin gh_file.cols
    /\ st_errors = <<"Grubhub Parse Error">>
    /\ df_gh = <<>>
    /\ ~raised

\* C2: if any expected source column (date, amount, status, location) is
\* missing, the parser returns an empty table, never a partial result filled
\* with a default.
C2_MissingColumnEmptyTable ==
    pc = "returned" => (MissingColumns # {} => Returned = <<>>)

-----------------------------------------------------------------------------
(* Properties of clean_currency, checked under SpecCurrency *)

\* C8: clean_currency maps "$1,234.56" to 1234.56, "  7 " to 7.0 and the
\* accounting-style negative "(5.00)" to -5.0.
C8_CurrencyExamples ==
    pc = "cleaned" =>
        /\ x = Str(<<"$", "1", ",", "2", "3", "4", ".", "5", "6">>) => amount.v = Norm(123456, 2)
        /\ x = Str(<<" ", " ", "7", " ">>) => amount.v = Norm(7, 0)
        /\ x = Str(<<"(", "5", ".", "0", "0", ")">>) => amount.v = Norm(0 - 500, 2)

\* a value that is no amount: a missing cell (None, NaN) or a text without a digit
NotAnAmount(v) ==
    \/ v.t = "NoneType"
    \/ v.t = "float" /\ v.f.cls = "nan"
    \/ v.t = "str" /\ \A i \in 1..Len(v.s) : v.s[i] \notin Digits

\* C9: for every input that is not a parseable amount (non-numeric text, the
\* empty string, a missing cell) clean_currency returns 0.0 and does not raise.
C9_UnparseableIsZero ==
    pc = "cleaned" => (NotAnAmount(x) => ~amount.raised /\ amount.v = FZero)

-----------------------------------------------------------------------------
(* Properties of the aggregates *)

Summarized == pc \in {"insights", "platform", "done"} /\ view = "dashboard"

OnlyGrubhub == uber_file.kind = "none" /\ dd_file.kind = "none" /\ gh_file.kind = "csv"

\* the external order identifiers of the Grubhub rows that reach the merged
\* table, and those among them with a cancellation or refund row
GhRows == IF df_gh = <<>> THEN {} ELSE 1..Len(gh_file.rows)
GhIds == {gh_file.rows[i].id : i \in GhRows}
GhCancelledIds == {gh_file.rows[i].id : i \in {j \in GhRows : contains_cancel_refund(gh_file.rows[j].type)}}

\* the paid rows of the orders that have no cancellation or refund row
GhPaidRows ==
    {i \in GhRows : /\ gh_file.rows[i].type = "Prepaid Order"
                    /\ gh_file.rows[i].id \notin GhCancelledIds}

RECURSIVE AmountOfRows(_)
AmountOfRows(S) ==
    IF S = {} THEN FZero
    ELSE LET i == CHOOSE j \in S : TRUE
         IN  FAdd(clean_currency(read_cell(gh_file.rows[i].amount)).v, AmountOfRows(S \ {i}))

\* C3: for Grubhub input in which one order identifier is on several rows,
\* the aggregator counts the identifier once among the orders and once among
\* the cancelled orders: its counts are over distinct identifiers, not rows.
C3_DistinctOrderCounts ==
    (Summarized /\ OnlyGrubhub) =>
        /\ summary.cancel_rate.den = Cardinality(GhIds)
        /\ summary.cancel_rate.num = 100 * Cardinality(GhCancelledIds)

\* C4: a Grubhub order that has a cancellation or refund row next to its paid
\* row adds nothing to the completed orders or to the total revenue.
C4_RefundedOrderNotCompleted ==
    (Summarized /\ OnlyGrubhub) =>
        /\ summary.total_orders = Cardinality(GhPaidRows)
        /\ summary.total_revenue = AmountOfRows(GhPaidRows)

\* C5: the cancellation rate is 100 times the number of distinct cancelled or
\* refunded orders over the number of distinct orders of the merged input
\* (one order per Uber Eats or DoorDash row, one per Grubhub identifier).
C5_CancelRateOverDistinctOrders ==
    Summarized =>
        summary.cancel_rate.num * (Len(df_uber) + Len(df_dd) + Cardinality(GhIds))
            = 100 * (cancelled_count(df_uber) + cancelled_count(df_dd) + Cardinality(GhCancelledIds))
                * summary.cancel_rate.den

\* C6: the cancellation rate of create_executive_summary lies in [0, 100] for
\* every merged table, the empty one included, and is 0 when no row is flagged
\* cancelled.
C6_CancelRateInRange ==
    pc \in {"insights", "platform", "done"} =>
        /\ summary.cancel_rate.den > 0
        /\ 0 <= summary.cancel_rate.num
        /\ summary.cancel_rate.num <= 100 * summary.cancel_rate.den
        /\ (\A i \in 1..Len(df) : ~df[i].Is_Cancelled) => summary.cancel_rate.num = 0

\* a summary of a table in which some rows are cancelled and some are not
C6_Witness ==
    /\ pc = "insights"
    /\ Len(df) >= 2
    /\ 0 < summary.cancel_rate.num
    /\ summary.cancel_rate.num < 100 * summary.cancel_rate.den

\* the platforms with a completed row, and the dates of the completed rows
TrendPlatforms == {p \in DOMAIN daily_platform : \E i \in 1..Len(df) : df[i].Is_Completed /\ df[i].Platform = p}
CompletedDates == DatesOf(completed_rows(df))
MinDate == CHOOSE a \in CompletedDates : \A b \in CompletedDates : a <= b
MaxDate == CHOOSE a \in CompletedDates : \A b \in CompletedDates : a >= b

\* C10: each platform's daily completed-order series has one entry for every
\* day of the observed span, (max_date - min_date).days + 1 of them, with a 0
\* on the days the platform has no completed order.
C10_DailySeriesSpanLength ==
    (pc = "done" /\ view = "dashboard") =>
        \A p \in TrendPlatforms : Len(daily_platform[p]) = MaxDate - MinDate + 1

-----------------------------------------------------------------------------
(* A run of main on an Uber Eats file alone, src/app.py:617-644: the file has *)
(* every column and its header on the second line; the rows carry dates      *)
(* inside and outside October 2025 and the status words of both languages.   *)

A7 == <<"7", ".", "2", "5">>

UberStatusWords ==
    {"zh:completed", "Completed", "zh:cancelled", "Cancelled",
     "zh:refund", "Refunded", "zh:incomplete", "Incomplete"}

UberRunRows ==
    {[date |-> d, amount |-> A5, status |-> st, store |-> "Store A"] :
        d \in {"2025-10-01", "2025-11-01"}, st \in UberStatusWords}
    \cup {[date |-> "2025-10-01", amount |-> A7, status |-> "zh:completed", store |-> "Store A"]}

UberRunFiles == {Csv(1, UberAllCols, rs) : rs \in Seqs(UberRunRows, MaxOrders)}

InitUber == \E u \in UberRunFiles : Start(u, NoFile, NoFile, "uber")

SpecUber == InitUber /\ [][Next]_vars

\* the status words that say completed, and those that say cancelled, in
\* either language
SaysCompleted == {"zh:completed", "Completed"}
SaysCancelled == {"zh:cancelled", "Cancelled"}

\* the rows of the Uber Eats file with one of the given status words
UberRowsSaying(words) == {i \in 1..Len(uber_file.rows) : uber_file.rows[i].status \in words}

RECURSIVE UberAmountOfRows(_)
UberAmountOfRows(S) ==
    IF S = {} THEN FZero
    ELSE LET i == CHOOSE j \in S : TRUE
         IN  FAdd(clean_currency(read_cell(uber_file.rows[i].amount)).v, UberAmountOfRows(S \ {i}))

\* an Uber Eats file of n >= 1 rows, every date valid, every status saying
\* completed or cancelled
UberRoundTripFile ==
    /\ uber_file.kind = "csv" /\ dd_file.kind = "none" /\ gh_file.kind = "none"
    /\ uber_file.rows # <<>>
    /\ \A i \in 1..Len(uber_file.rows) :
           /\ to_datetime(uber_file.rows[i].date) # NaT
           /\ uber_file.rows[i].status \in SaysCompleted \cup SaysCancelled

\* C11: for an Uber Eats file of n rows with valid dates, c of them completed
\* and k = n - c cancelled, parsing and create_executive_summary report
\* total_orders = c, cancel_rate = 100 * k / n and a total revenue equal to the
\* sum of the amounts of the c completed rows.
C11_UberRoundTrip ==
    (pc = "done" /\ UberRoundTripFile) =>
        /\ view = "dashboard"
        /\ summary.total_orders = Cardinality(UberRowsSaying(SaysCompleted))
        /\ summary.cancel_rate.num * Len(uber_file.rows)
               = 100 * Cardinality(UberRowsSaying(SaysCancelled)) * summary.cancel_rate.den
        /\ summary.total_revenue = UberAmountOfRows(UberRowsSaying(SaysCompleted))

-----------------------------------------------------------------------------
(* Properties of a run of main, checked under Spec *)

\* a file that cannot be parsed at all: zero bytes, or bytes that are no text
Unreadable(file) == file.kind \in {"empty", "undecodable"}

\* the records of the merged table that carry the platform's name
RowsOf(p) == SelectSeq(df, LAMBDA r : r.Platform = p)

\* one channel's file is unreadable while another channel's file gave records
OneFailedOthersValid ==
    /\ Unreadable(uber_file) \/ Unreadable(dd_file) \/ Unreadable(gh_file)
    /\ df_uber # <<>> \/ df_dd # <<>> \/ df_gh # <<>>

\* C12: when one channel's file is empty or malformed and another channel's is
\* valid, the failed channel's parser returns an empty table, no exception
\* escapes and main is never aborted before its end, every record of the
\* other channels is in the merged table and in the totals, and the failed
\* channel adds no order and no revenue to any metric.
C12_FailedChannelContributesNothing ==
    /\ ~raised /\ pc # "aborted"
    /\ (pc \notin {"uber"} /\ Unreadable(uber_file)) => df_uber = <<>>
    /\ (pc \notin {"uber", "dd"} /\ Unreadable(dd_file)) => df_dd = <<>>
    /\ (pc \notin {"uber", "dd", "gh"} /\ Unreadable(gh_file)) => df_gh = <<>>
    /\ (pc = "done" /\ OneFailedOthersValid) =>
           /\ view = "dashboard"
           /\ RowsOf("Uber Eats") = sort_by_date(df_uber)
           /\ RowsOf("DoorDash") = sort_by_date(df_dd)
           /\ RowsOf("Grubhub") = sort_by_date(df_gh)
           /\ summary.total_orders = Len(completed_rows(df_uber)) + Len(completed_rows(df_dd))
                                        + Len(completed_rows(df_gh))
           /\ summary.total_revenue = FAdd(revenue_sum(completed_rows(df_uber)),
                                           FAdd(revenue_sum(completed_rows(df_dd)),
                                                revenue_sum(completed_rows(df_gh))))
           /\ \A p \in DOMAIN daily_platform :
                  (RowsOf(p) = <<>>) => daily_platform[p] = <<>>

\* the Uber Eats file could not be decoded; the DoorDash and Grubhub records
\* were merged and summarised
C12_Witness ==
    /\ pc = "done" /\ view = "dashboard"
    /\ uber_file.kind = "undecodable"
    /\ st_errors = <<"Uber Parse Error">>
    /\ df_uber = <<>> /\ df_dd # <<>> /\ df_gh # <<>>
    /\ Len(df) = Len(df_dd) + Len(df_gh)
    /\ summary.total_orders >= 1

\* no parser gave a record: nothing was uploaded, or every upload parsed to an
\* empty table
NothingParsed == df_uber = <<>> /\ df_dd = <<>> /\ df_gh = <<>>

\* C13: when no file is uploaded, or every uploaded file parses to an empty
\* table, main aggregates nothing and shows the welcome screen, raising
\* nothing; the aggregation steps run only over a non-empty list of tables.
C13_NoDataShowsWelcome ==
    /\ (pc \in {"summary", "insights", "platform"} \/ view = "dashboard") => data_frames # <<>>
    /\ (pc = "done" /\ NothingParsed) =>
           /\ view = "welcome"
           /\ ~raised
           /\ df = <<>>
           /\ summary = NoSummary
           /\ ~insight_cancel
           /\ daily_platform = NoTrend

\* three files were uploaded, none could be read, and main ended on the
\* welcome screen
C13_Witness ==
    /\ pc = "done" /\ view = "welcome"
    /\ Unreadable(uber_file) /\ Unreadable(dd_file) /\ Unreadable(gh_file)
    /\ Len(st_errors) = 3
    /\ NothingParsed

-----------------------------------------------------------------------------
(* Properties of create_executive_summary, checked under SpecSummary *)

\* two summaries report the same order count, total revenue and average value
SameTotals(s1, s2) ==
    /\ s1.total_orders = s2.total_orders
    /\ s1.total_revenue = s2.total_revenue
    /\ s1.avg_order_value = s2.avg_order_value

\* the table without its i-th row
RemoveAt(t, i) == SubSeq(t, 1, i - 1) \o SubSeq(t, i + 1, Len(t))

\* amounts a row can be changed to, and rows that are not flagged completed
OtherAmounts == {FZero, Norm(99999, 2), FNaN, FInf}
NotCompletedRecs == {r \in SummaryRecs : ~r.Is_Completed}

\* C14: total_orders, total_revenue and avg_order_value are computed over the
\* completed rows only: removing a row that is not flagged completed, changing
\* its amount, or adding such a row leaves all three unchanged.
C14_TotalsOverCompletedOnly ==
    pc \in {"insights", "platform", "done"} =>
        /\ \A i \in 1..Len(df) :
               ~df[i].Is_Completed =>
                   /\ SameTotals(summary, create_executive_summary(RemoveAt(df, i)))
                   /\ \A a \in OtherAmounts :
                          SameTotals(summary, create_executive_summary([df EXCEPT ![i].Revenue = a]))
        /\ \A r \in NotCompletedRecs :
               SameTotals(summary, create_executive_summary(Append(df, r)))

\* a summary of a table that holds completed rows next to a cancelled row and
\* a row flagged neither
C14_Witness ==
    /\ pc = "insights"
    /\ \E i, j \in 1..Len(df) :
           /\ df[i].Is_Cancelled
           /\ ~df[j].Is_Cancelled /\ ~df[j].Is_Completed
    /\ summary.total_orders = 1
    /\ summary.total_revenue = Norm(500, 2)

-----------------------------------------------------------------------------
(* Properties of the flags and dates the parsers emit, checked under SpecParse *)

\* the rows of the Grubhub file that the parser keeps, in order: all of them
\* under synthetic dates, else those dated within October 2025
GhKeptRows ==
    IF HashedGrubhub THEN gh_file.rows
    ELSE SelectSeq(gh_file.rows, LAMBDA r : in_october(to_datetime(r.date)))

\* the Grubhub parser returned without an error, from a file that has the
\* transaction_type column
GhTyped ==
    /\ pc = "returned" /\ gh_file.kind = "csv"
    /\ st_errors = <<>>
    /\ G_TYPE \in gh_file.cols

\* transaction types of rows that are no order of their own
NotAnOrderTypes == {"Tax", "Order Adjustment", "Cancellation", "Refund"}

\* C15: a Grubhub row (of a file with a transaction_type column) is flagged
\* completed if and only if its type is 'Prepaid Order' and it is not flagged
\* cancelled; tax, adjustment, cancellation and refund rows are never
\* flagged completed.
C15_GrubhubCompletedIffPrepaid ==
    GhTyped =>
        /\ Len(df_gh) = Len(GhKeptRows)
        /\ \A i \in 1..Len(df_gh) :
               /\ df_gh[i].Is_Completed
                      <=> (GhKeptRows[i].type = "Prepaid Order" /\ ~df_gh[i].Is_Cancelled)
               /\ GhKeptRows[i].type \in NotAnOrderTypes => ~df_gh[i].Is_Completed

\* the parser kept a paid row, flagged completed, and an adjustment row,
\* flagged neither completed nor cancelled
C15_Witness ==
    /\ GhTyped
    /\ Len(df_gh) = 2
    /\ GhKeptRows[1].type = "Prepaid Order" /\ df_gh[1].Is_Completed
    /\ GhKeptRows[2].type = "Order Adjustment"
    /\ ~df_gh[2].Is_Completed /\ ~df_gh[2].Is_Cancelled

\* the called Uber Eats file with its header line moved: from the second line
\* to the first, or from the first to the second, the data rows the same
HeaderMoved == [uber_file EXCEPT !.lead = 1 - uber_file.lead]

\* C16: parse_uber finds the header line by looking for a known column name,
\* so a file with its header on the first line and the same file with its
\* header one line lower parse to the same table.
C16_HeaderOffsetIrrelevant ==
    (pc = "returned" /\ uber_file.kind = "csv") =>
        df_uber = parse_uber(HeaderMoved).table

-----------------------------------------------------------------------------
(* Properties of the Uber Eats status flags, checked under SpecUber *)

\* the rows of the Uber Eats file that the date filter keeps, in order
UberKeptRows == SelectSeq(uber_file.rows, LAMBDA r : in_october(to_datetime(r.date)))

\* the status words that say cancelled, refunded or incomplete, in either
\* language
SaysNotFulfilled ==
    SaysCancelled \cup {"zh:refund", "Refunded", "zh:incomplete", "Incomplete"}

\* C17: every Uber Eats row whose status says completed is flagged completed
\* and not cancelled, every row whose status says cancelled, refunded or
\* incomplete is flagged cancelled and not completed, in whichever language
\* the word is written; no row with a status of the vocabulary is flagged
\* neither.
C17_ClosedStatusVocabulary ==
    (pc # "uber" /\ uber_file.kind = "csv" /\ st_errors = <<>>) =>
        /\ Len(df_uber) = Len(UberKeptRows)
        /\ \A i \in 1..Len(df_uber) :
               /\ UberKeptRows[i].status \in SaysCompleted
                      => (df_uber[i].Is_Completed /\ ~df_uber[i].Is_Cancelled)
               /\ UberKeptRows[i].status \in SaysNotFulfilled
                      => (df_uber[i].Is_Cancelled /\ ~df_uber[i].Is_Completed)

-----------------------------------------------------------------------------
(* Properties of every parser's output, checked under SpecParse *)

\* C18: no record returned by a parser is flagged both completed and
\* cancelled (a record may be flagged neither).
C18_NeverCompletedAndCancelled ==
    pc = "returned" =>
        \A i \in 1..Len(Returned) : ~(Returned[i].Is_Completed /\ Returned[i].Is_Cancelled)

\* the Uber Eats parser returned a record flagged cancelled for an incomplete
\* order and a record flagged neither
C18_Witness ==
    /\ pc = "returned"
    /\ Len(df_uber) = 2
    /\ uber_file.rows[1].status = "zh:incomplete"
    /\ df_uber[1].Is_Cancelled /\ ~df_uber[1].Is_Completed
    /\ ~df_uber[2].Is_Cancelled /\ ~df_uber[2].Is_Completed

\* the date the called parser reads in a cell
DateRead(c) == IF dd_file.kind # "none" THEN to_datetime_mdy(c) ELSE to_datetime(c)

\* the data rows of the called file dated 2025-10-01 .. 2025-10-31
WindowRows ==
    {i \in 1..Len(CalledFile.rows) : DateRead(CalledFile.rows[i].date) \in OctFirst..OctLast}

\* C19: every record a parser returns is dated 2025-10-01 .. 2025-10-31; a
\* source row dated outside that window, or with an unreadable date that is
\* not replaced by a synthetic one, is not in the output.
C19_OutputWithinOctober ==
    pc = "returned" =>
        /\ \A i \in 1..Len(Returned) : Returned[i].Date \in OctFirst..OctLast
        /\ ~HashedGrubhub => Len(Returned) <= Cardinality(WindowRows)

\* the Uber Eats parser returned one record for a file of two rows, the
\* second of which is dated 2025-11-01
C19_Witness ==
    /\ pc = "returned"
    /\ uber_file.kind = "csv" /\ Len(uber_file.rows) = 2
    /\ uber_file.rows[1].date = "2025-10-01"
    /\ uber_file.rows[2].date = "2025-11-01"
    /\ Len(df_uber) = 1 /\ df_uber[1].Date = OctFirst

\* the Grubhub parser returned without an error
GhParsed ==
    /\ pc = "returned" /\ gh_file.kind = "csv"
    /\ st_errors = <<>>
    /\ gh_file.rows # <<>>

\* C20: parse_grubhub chooses between real and synthetic dates by the first
\* row alone.  If the first row shows ########, every row, the rows with a
\* valid date included, gets its synthetic October 2025 date and none is
\* removed; if the first row's date is valid, every later row that shows
\* ######## is dropped.
C20_FirstRowDecidesDates ==
    GhParsed =>
        IF gh_file.rows[1].date = "########"
        THEN /\ Len(df_gh) = Len(gh_file.rows)
             /\ \A i \in 1..Len(df_gh) :
                    /\ df_gh[i].Date = SyntheticDays[i]
                    /\ df_gh[i].Date \in OctFirst..OctLast
        ELSE /\ Len(df_gh) = Cardinality({i \in 1..Len(gh_file.rows) :
                                            to_datetime(gh_file.rows[i].date) \in OctFirst..OctLast})
             /\ Len(df_gh) <= Cardinality({i \in 1..Len(gh_file.rows) :
                                            gh_file.rows[i].date # "########"})
             /\ \A i \in 1..Len(df_gh) : df_gh[i].Date = to_datetime(GhKeptRows[i].date)

\* the first row shows ########, the second is dated 2025-11-01, and both
\* were returned under synthetic dates
C20_Witness ==
    /\ GhParsed
    /\ Len(gh_file.rows) = 2
    /\ gh_file.rows[1].date = "########"
    /\ gh_file.rows[2].date = "2025-11-01"
    /\ Len(df_gh) = 2
    /\ df_gh[2].Date = SyntheticDays[2]

-----------------------------------------------------------------------------
(* Properties of the platform tables of main, checked under Spec *)

\* C21: the Cancel Rate % column of the detailed platform metrics table is
\* taken over the completed rows of each platform and is 0 on every line,
\* however many rows of the platform are flagged cancelled; the cancellation
\* chart's rate of the same platform is taken over all of its rows.
C21_DetailedCancelRateIsZero ==
    (pc = "done" /\ view = "dashboard") =>
        \A p \in DOMAIN platform_detailed :
            /\ platform_detailed[p].Cancel_Rate.num = 0
            /\ platform_detailed[p].present <=> (\E i \in 1..Len(df) : df[i].Platform = p /\ df[i].Is_Completed)
            /\ cancel_by_platform[p].present =>
                   cancel_by_platform[p].rate
                       = round2_rate([num |-> 100 * cancelled_count(platform_rows(df, p)),
                                      den |-> Len(platform_rows(df, p))])

\* a platform with a completed and a cancelled row: 0 in the detailed table,
\* 50 in the cancellation chart
C21_Witness ==
    /\ pc = "done" /\ view = "dashboard"
    /\ platform_detailed["Uber Eats"].present
    /\ platform_detailed["Uber Eats"].Cancel_Rate.num = 0
    /\ cancel_by_platform["Uber Eats"].rate = [num |-> 5000, den |-> 100]

====
